---- MODULE Spec2Model ----
(***************************************************************************)
(* Chat server of socketio-chat.                                           *)
(*                                                                         *)
(* Part I models server/controllers/socketHandlers.js: the in-memory       *)
(* stores (users, socketsByUser, messages, typingUsers, rooms) and one     *)
(* action per socket event handler.  Socket.IO itself is modelled by the   *)
(* adapter's room table sioRooms: every socket is in the room named by its *)
(* own id from connection on, socket.join / socket.leave add and remove    *)
(* it, a disconnecting socket has left every room before its 'disconnect'  *)
(* listeners run, and io.to(r).emit reaches exactly the sockets of room r. *)
(*                                                                         *)
(* Part II models the history pager that drives load_older.                *)
(* Part III models server/server.js, whose handlers await the database.    *)
(***************************************************************************)
EXTENDS Integers, Sequences, FiniteSets, TLC

\* ------------------------------------------------------------------ bounds
MaxMsgs == 1
MaxLimit == 2
MaxHistory == 4
MaxReqs == 2
MaxReads == 2

\* messages.length > 2000 evicts the oldest entry (send_message only)
MaxLog == 2000
\* load_older: limit = 20 when the payload has none
DefaultLimit == 20

\* --------------------------------------------------------------- universes
Null == "<null>"
NoId == 0

SocketIds == {"s1", "s2"}
Usernames == {"alice", "bob"}
\* a room id is any string a client sends; socket ids are broadcast to every
\* client in user_joined, so they are among the strings a client can send
KnownSocket == "s1"
RoomIds == {"global", "general", KnownSocket}
\* "" stands for a missing / falsy value in a payload
RoomInputs == RoomIds \cup {""}
NameInputs == Usernames \cup {""}
Tokens == {"", "garbage", "jwt-alice", "jwt-bob"}
Texts == {"hi"}
Kinds == {"like"}
\* message ids a client may name: every id the log can hold and one it cannot
IdInputs == 1..(MaxMsgs + 1)

EmptyFn == [x \in {} |-> x]
Put(f, k, v) == [x \in DOMAIN f \cup {k} |-> IF x = k THEN v ELSE f[x]]
Del(f, k) == [x \in DOMAIN f \ {k} |-> f[x]]

VARIABLES
  conn,           \* socket id -> "new" | "live" | "dead"
  sioRooms,       \* Socket.IO adapter: room id -> set of socket ids
  users,          \* socketId -> username (the id field is the key itself)
  socketsByUser,  \* username -> Set(socketId)
  messages,       \* message objects, oldest first
  typingUsers,    \* socketId -> username, in insertion order
  rooms,          \* roomId -> Set(socketId)
  now,            \* Date.now()
  nextId,         \* next fresh message id
  out,            \* socket id -> events the last handler delivered to it
  acks,           \* acknowledgements the last handler passed to its callback
  last,           \* the inbound event the last handler was run for
  typingIn        \* history: the <<socket id, room>> pairs for which typing
                  \*   with isTyping=true was handled and neither typing with
                  \*   isTyping=false for that room nor a disconnect since

hvars == <<conn, sioRooms, users, socketsByUser, messages, typingUsers, rooms,
           now, nextId, out, acks, last, typingIn>>

\* a client that scrolls back through one room's history with load_older
VARIABLES
  pgState,        \* "idle" | "paging" | "done"
  pgSocket,       \* the socket the client pages on
  pgRoom,         \* the room it pages
  pgLimit,        \* its page size
  pgCursor,       \* id of the oldest message of the page last received
  pgHistory       \* the pages received, each older page put in front

pvars == <<pgState, pgSocket, pgRoom, pgLimit, pgCursor, pgHistory>>

\* server/server.js
VARIABLES
  srvConn,        \* socket id -> "new" | "live" | "dead" (refused by io.use)
  srvSocket,      \* socket id -> [user, currentRoom, listening]: socket.user,
                  \*   socket.currentRoom, and whether socket.on(...) has run
  srvRooms,       \* Socket.IO adapter: room id -> set of socket ids
  srvUsers,       \* users: socketId -> [clerkId, username, room]
  userDocs,       \* User collection: clerkId -> [username, socketId, online]
  messageDocs,    \* Message collection, in order of creation
  srvPending,     \* handler runs suspended at an await
  srvNextReq,     \* number of the next handler run that awaits
  srvErrors,      \* console.error: the runs whose await threw, and where
  srvInbox,       \* socket id -> the receive_message and private_message
                  \*   events delivered to it so far, in order
  srvOut          \* socket id -> the other events the last step delivered

svars == <<srvConn, srvSocket, srvRooms, srvUsers, userDocs, messageDocs,
           srvPending, srvNextReq, srvErrors, srvInbox, srvOut>>

vars == <<hvars, pvars, svars>>

\* ---------------------------------------------------------------- helpers
Live == {c \in SocketIds : conn[c] = "live"}

NoOut == [c \in SocketIds |-> <<>>]

\* one emit: append event e to the deliveries of every socket in S
Emit(o, S, e) == [c \in SocketIds |-> IF c \in S THEN Append(o[c], e) ELSE o[c]]

\* io.to(room): the sockets of an adapter room
InRoom(sio, r) == IF r \in DOMAIN sio THEN sio[r] ELSE {}

SioJoin(sio, c, r) == [sio EXCEPT ![r] = @ \cup {c}]
SioLeave(sio, c, r) == [sio EXCEPT ![r] = @ \ {c}]
SioLeaveAll(sio, c) == [r \in DOMAIN sio |-> sio[r] \ {c}]

\* const toISO = (ts = Date.now()) => new Date(ts).toISOString()
toISO(ts) == "T" \o ToString(ts)

\* jwt.verify(token, secret): the payload's username, or Null
verifyToken(token) ==
  CASE token = "jwt-alice" -> "alice"
    [] token = "jwt-bob" -> "bob"
    [] OTHER -> Null

createMessage(id, ts, text, sender, senderId, roomId, isPrivate, toUser) ==
  [id |-> id,
   text |-> IF text = "" THEN Null ELSE text,
   fileUrl |-> Null,
   sender |-> sender,
   senderId |-> senderId,
   roomId |-> roomId,
   isPrivate |-> isPrivate,
   toUser |-> toUser,
   timestamp |-> toISO(ts),
   readBy |-> <<>>,
   reactions |-> EmptyFn]

\* getUserList(): the distinct usernames of users
getUserList(us) == {us[s] : s \in DOMAIN us}

HandlersInit ==
  /\ conn = [c \in SocketIds |-> "new"]
  /\ sioRooms = [r \in RoomIds \cup SocketIds |-> {}]
  /\ users = EmptyFn
  /\ socketsByUser = EmptyFn
  /\ messages = <<>>
  /\ typingUsers = <<>>
  /\ typingIn = {}
  /\ rooms = [r \in {"global"} |-> {}]
  /\ now = 0
  /\ nextId = 1
  /\ out = NoOut
  /\ acks = <<>>
  /\ last = [op |-> "init"]

PagerInit ==
  /\ pgState = "idle"
  /\ pgSocket = Null
  /\ pgRoom = Null
  /\ pgLimit = 0
  /\ pgCursor = NoId
  /\ pgHistory = <<>>

\* socket.user when io.use set none
NoUser == [clerkId |-> Null, username |-> Null]
NoSocket == [user |-> NoUser, currentRoom |-> "", listening |-> FALSE]

ServerInit ==
  /\ srvConn = [c \in SocketIds |-> "new"]
  /\ srvSocket = [c \in SocketIds |-> NoSocket]
  /\ srvRooms = [r \in RoomIds \cup SocketIds |-> {}]
  /\ srvUsers = EmptyFn
  /\ userDocs = EmptyFn
  /\ messageDocs = <<>>
  /\ srvPending = {}
  /\ srvNextReq = 1
  /\ srvErrors = {}
  /\ srvInbox = NoOut
  /\ srvOut = NoOut

Init == HandlersInit /\ PagerInit /\ ServerInit

\* ---------------------------------------------------------------- actions
\* registerUser(socket, username, io); sio is the adapter table on entry and
\* everyone the connected sockets, which is where io.emit goes
registerUser(c, username, sio, everyone) ==
  LET known == IF username \in DOMAIN socketsByUser
               THEN socketsByUser[username] ELSE {}
      us == Put(users, c, username)
      o1 == Emit(NoOut, everyone, [ev |-> "user_joined", username |-> username, id |-> c])
      o2 == Emit(o1, everyone, [ev |-> "user_list", list |-> getUserList(us)])
      o3 == Emit(o2, everyone, [ev |-> "notification", type |-> "join", username |-> username])
  IN /\ users' = us
     /\ socketsByUser' = Put(socketsByUser, username, known \cup {c})
     /\ sioRooms' = SioJoin(sio, c, "global")
     /\ rooms' = [rooms EXCEPT !["global"] = @ \cup {c}]
     /\ out' = o3

\* io.on('connection', socket => handleSocketConnection(io, socket))
Connect(c, token) ==
  /\ conn[c] = "new"
  /\ conn' = [conn EXCEPT ![c] = "live"]
  /\ last' = [op |-> "connection", sid |-> c, token |-> token]
  /\ acks' = <<>>
  /\ IF token # "" /\ verifyToken(token) # Null
     THEN registerUser(c, verifyToken(token), SioJoin(sioRooms, c, c), Live \cup {c})
     ELSE /\ sioRooms' = SioJoin(sioRooms, c, c)
          /\ out' = NoOut
          /\ UNCHANGED <<users, socketsByUser, rooms>>
  /\ UNCHANGED <<messages, typingUsers, typingIn, now, nextId>>
  /\ UNCHANGED <<pvars, svars>>

\* socket.on('user_join', username => ...)
UserJoin(c, username) ==
  /\ conn[c] = "live"
  /\ last' = [op |-> "user_join", sid |-> c, username |-> username]
  /\ acks' = <<>>
  /\ IF username = ""
     THEN /\ out' = NoOut
          /\ UNCHANGED <<users, socketsByUser, sioRooms, rooms>>
     ELSE registerUser(c, username, sioRooms, Live)
  /\ UNCHANGED <<conn, messages, typingUsers, typingIn, now, nextId>>
  /\ UNCHANGED <<pvars, svars>>

\* mutant of RoomsAdd: rooms[roomId] = new Set([socket.id])
RoomsAddOverwrite(rs, c, roomId) == Put(rs, roomId, {c})

\* rooms[roomId] = rooms[roomId] || new Set(); rooms[roomId].add(socket.id)
RoomsAdd(rs, c, roomId) ==
  Put(rs, roomId, (IF roomId \in DOMAIN rs THEN rs[roomId] ELSE {}) \cup {c})

\* rooms[roomId]?.delete(socket.id)
RoomsDelete(rs, c, roomId) ==
  IF roomId \in DOMAIN rs THEN [rs EXCEPT ![roomId] = @ \ {c}] ELSE rs

\* socket.on('join_room', ({ roomId }) => ...)
JoinRoom(c, roomId) ==
  /\ conn[c] = "live"
  /\ last' = [op |-> "join_room", sid |-> c, roomId |-> roomId]
  /\ acks' = <<>>
  /\ IF roomId = ""
     THEN /\ out' = NoOut
          /\ UNCHANGED <<sioRooms, rooms>>
     ELSE LET sio == SioJoin(sioRooms, c, roomId)
              o1 == Emit(NoOut, InRoom(sio, roomId),
                         [ev |-> "room_joined", roomId |-> roomId, socketId |-> c])
              o2 == Emit(o1, Live,
                         [ev |-> "notification", type |-> "room_join",
                          roomId |-> roomId, socketId |-> c])
          IN /\ sioRooms' = sio
             /\ rooms' = RoomsAdd(rooms, c, roomId)
             /\ out' = o2
  /\ UNCHANGED <<conn, users, socketsByUser, messages, typingUsers, typingIn, now, nextId>>
  /\ UNCHANGED <<pvars, svars>>

\* socket.on('leave_room', ({ roomId }) => ...)
LeaveRoom(c, roomId) ==
  /\ conn[c] = "live"
  /\ last' = [op |-> "leave_room", sid |-> c, roomId |-> roomId]
  /\ acks' = <<>>
  /\ IF roomId = ""
     THEN /\ out' = NoOut
          /\ UNCHANGED <<sioRooms, rooms>>
     ELSE LET sio == SioLeave(sioRooms, c, roomId)
          IN /\ sioRooms' = sio
             /\ rooms' = RoomsDelete(rooms, c, roomId)
             /\ out' = Emit(NoOut, InRoom(sio, roomId),
                            [ev |-> "room_left", roomId |-> roomId, socketId |-> c])
  /\ UNCHANGED <<conn, users, socketsByUser, messages, typingUsers, typingIn, now, nextId>>
  /\ UNCHANGED <<pvars, svars>>

\* messages.push(msg); if (messages.length > 2000) messages.shift()
PushCapped(ms, msg) ==
  LET pushed == Append(ms, msg)
  IN IF Len(pushed) > MaxLog THEN Tail(pushed) ELSE pushed

\* io.to(msg.roomId).emit('receive_message', msg)
RoomTargets(sio, msg) == InRoom(sio, msg.roomId)

\* mutant of SendAck: timestamp: toISO(), a fresh reading of the clock
SendAckFreshClock(msg) == [status |-> "ok", id |-> msg.id, timestamp |-> toISO(now + 2)]

\* ack({ status: 'ok', id: msg.id, timestamp: msg.timestamp })
SendAck(msg) == [status |-> "ok", id |-> msg.id, timestamp |-> msg.timestamp]

\* mutant of NotAuthenticated: the acknowledgement reports success
NotAuthenticatedOk == [status |-> "ok"]

\* ack({ status: 'error', reason: 'not_authenticated' })
NotAuthenticated == [status |-> "error", reason |-> "not_authenticated"]

\* socket.on('send_message', (payload, ack) => ...)
SendMessage(c, roomId, text, hasAck) ==
  /\ conn[c] = "live"
  /\ last' = [op |-> "send_message", sid |-> c, roomId |-> roomId, hasAck |-> hasAck]
  /\ IF c \notin DOMAIN users
     THEN /\ acks' = IF hasAck THEN <<NotAuthenticated>> ELSE <<>>
          /\ out' = NoOut
          /\ UNCHANGED <<messages, now, nextId>>
     ELSE /\ now < MaxMsgs
          /\ LET ts == now + 1
                  msg == createMessage(nextId, ts, text, users[c], c,
                                        IF roomId = "" THEN "global" ELSE roomId,
                                        FALSE, Null)
                  o1 == Emit(NoOut, RoomTargets(sioRooms, msg),
                             [ev |-> "receive_message", msg |-> msg])
                  o2 == Emit(o1, Live,
                             [ev |-> "notification", type |-> "message",
                              roomId |-> msg.roomId, messageId |-> msg.id])
             IN /\ messages' = PushCapped(messages, msg)
                /\ out' = o2
                /\ acks' = IF hasAck THEN <<SendAck(msg)>> ELSE <<>>
                /\ now' = ts
                /\ nextId' = nextId + 1
  /\ UNCHANGED <<conn, sioRooms, users, socketsByUser, typingUsers, typingIn, rooms>>
  /\ UNCHANGED <<pvars, svars>>

\* Object.values(typingUsers)
TypingNames(tu) == [i \in 1..Len(tu) |-> tu[i].username]

\* mutant of TypingDelete: the entry is kept
TypingDeleteKeeps(tu, c) == tu

\* delete typingUsers[socket.id]
TypingDelete(tu, c) == SelectSeq(tu, LAMBDA e : e.sid # c)

\* typingUsers[socket.id] = u.username
TypingSet(tu, c, username) ==
  IF \E i \in 1..Len(tu) : tu[i].sid = c
  THEN [i \in 1..Len(tu) |-> IF tu[i].sid = c
                             THEN [sid |-> c, username |-> username] ELSE tu[i]]
  ELSE Append(tu, [sid |-> c, username |-> username])

\* socket.on('typing', ({ roomId = 'global', isTyping }) => ...)
Typing(c, roomId, isTyping) ==
  /\ conn[c] = "live"
  /\ last' = [op |-> "typing", sid |-> c, roomId |-> roomId, isTyping |-> isTyping]
  /\ acks' = <<>>
  /\ IF c \notin DOMAIN users
     THEN /\ out' = NoOut
          /\ UNCHANGED <<typingUsers, typingIn>>
     ELSE LET room == IF roomId = "" THEN "global" ELSE roomId
              tu == IF isTyping THEN TypingSet(typingUsers, c, users[c])
                    ELSE TypingDelete(typingUsers, c)
          IN /\ typingUsers' = tu
             /\ typingIn' = IF isTyping THEN typingIn \cup {<<c, room>>}
                            ELSE typingIn \ {<<c, room>>}
             /\ out' = Emit(NoOut, InRoom(sioRooms, room),
                            [ev |-> "typing_users", names |-> TypingNames(tu)])
  /\ UNCHANGED <<conn, sioRooms, users, socketsByUser, messages, rooms, now, nextId>>
  /\ UNCHANGED <<pvars, svars>>

\* socket.on('disconnect', reason => ...)
Disconnect(c) ==
  /\ conn[c] = "live"
  /\ conn' = [conn EXCEPT ![c] = "dead"]
  /\ sioRooms' = SioLeaveAll(sioRooms, c)
  /\ last' = [op |-> "disconnect", sid |-> c,
              typingIn |-> {p[2] : p \in {q \in typingIn : q[1] = c}}]
  /\ acks' = <<>>
  /\ IF c \in DOMAIN users
     THEN LET username == users[c]
              left == IF username \in DOMAIN socketsByUser
                      THEN [socketsByUser EXCEPT ![username] = @ \ {c}]
                      ELSE socketsByUser
              sbu == IF username \in DOMAIN left /\ left[username] = {}
                     THEN Del(left, username) ELSE left
              us == Del(users, c)
              tu == TypingDelete(typingUsers, c)
              everyone == Live \ {c}
              o1 == Emit(NoOut, everyone, [ev |-> "user_left", username |-> username, id |-> c])
              o2 == Emit(o1, everyone, [ev |-> "user_list", list |-> getUserList(us)])
              o3 == Emit(o2, everyone, [ev |-> "typing_users", names |-> TypingNames(tu)])
          IN /\ socketsByUser' = sbu
             /\ users' = us
             /\ typingUsers' = tu
             /\ rooms' = [r \in DOMAIN rooms |-> rooms[r] \ {c}]
             /\ out' = o3
     ELSE /\ out' = NoOut
          /\ UNCHANGED <<users, socketsByUser, typingUsers, rooms>>
  /\ typingIn' = {p \in typingIn : p[1] # c}
  /\ UNCHANGED <<messages, now, nextId>>
  /\ UNCHANGED <<pvars, svars>>

\* for (const sid of S) io.to(sid).emit(e): a socket gets one copy for every
\* sid of S whose adapter room it is in
EmitEach(o, sio, S, e) ==
  [x \in SocketIds |->
     o[x] \o [i \in 1..Cardinality({sid \in S : x \in InRoom(sio, sid)}) |-> e]]

\* socketsByUser[name] || new Set()
SocketsOf(sbu, name) == IF name \in DOMAIN sbu THEN sbu[name] ELSE {}

\* ack({ status: 'ok', id: msg.id })
PrivateAck(msg) == [status |-> "ok", id |-> msg.id]

\* socket.on('private_message', ({ to, text, fileUrl }, ack) => ...)
PrivateMessage(c, to, text, hasAck) ==
  /\ conn[c] = "live"
  /\ last' = [op |-> "private_message", sid |-> c, to |-> to, hasAck |-> hasAck]
  /\ IF c \notin DOMAIN users
     THEN /\ acks' = IF hasAck THEN <<NotAuthenticated>> ELSE <<>>
          /\ out' = NoOut
          /\ UNCHANGED <<messages, now, nextId>>
     ELSE /\ now < MaxMsgs
          /\ LET ts == now + 1
                 msg == createMessage(nextId, ts, text, users[c], c, "global", TRUE, to)
                 recSockets == SocketsOf(socketsByUser, to)
                 o1 == EmitEach(NoOut, sioRooms, recSockets,
                                [ev |-> "private_message", msg |-> msg])
                 o2 == Emit(o1, {c}, [ev |-> "private_message", msg |-> msg])
                 o3 == EmitEach(o2, sioRooms, recSockets,
                                [ev |-> "notification", type |-> "private_message",
                                 messageId |-> msg.id, from |-> users[c]])
             IN /\ messages' = Append(messages, msg)
                /\ out' = o3
                /\ acks' = IF hasAck THEN <<PrivateAck(msg)>> ELSE <<>>
                /\ now' = ts
                /\ nextId' = nextId + 1
  /\ UNCHANGED <<conn, sioRooms, users, socketsByUser, typingUsers, typingIn, rooms>>
  /\ UNCHANGED <<pvars, svars>>

\* messages.find(mm => mm.id === messageId): its index, 0 when there is none
FindMessage(ms, messageId) ==
  IF \E i \in 1..Len(ms) : ms[i].id = messageId
  THEN CHOOSE i \in 1..Len(ms) :
         /\ ms[i].id = messageId
         /\ \A j \in 1..(i - 1) : ms[j].id # messageId
  ELSE 0

Includes(seq, x) == \E i \in 1..Len(seq) : seq[i] = x

\* if (!m.readBy.includes(username)) m.readBy.push(username)
markRead(readBy, username) ==
  IF Includes(readBy, username) THEN readBy ELSE Append(readBy, username)

\* socket.on('message_read', ({ messageId, username }) => ...)
MessageRead(c, messageId, username) ==
  /\ conn[c] = "live"
  /\ last' = [op |-> "message_read", sid |-> c, messageId |-> messageId,
              username |-> username]
  /\ acks' = <<>>
  /\ LET i == FindMessage(messages, messageId)
     IN IF i = 0
        THEN /\ out' = NoOut
             /\ UNCHANGED messages
        ELSE LET m == messages[i]
                 e == [ev |-> "message_read", messageId |-> messageId,
                       username |-> username]
             IN /\ messages' = [messages EXCEPT ![i].readBy = markRead(@, username)]
                /\ out' = IF m.isPrivate
                          THEN EmitEach(NoOut, sioRooms,
                                        SocketsOf(socketsByUser, m.sender), e)
                          ELSE Emit(NoOut, InRoom(sioRooms, m.roomId), e)
  /\ UNCHANGED <<conn, sioRooms, users, socketsByUser, typingUsers, typingIn, rooms, now, nextId>>
  /\ UNCHANGED <<pvars, svars>>

\* indexOf(username): 1-based position of the first occurrence, 0 when absent
IndexOf(seq, x) ==
  IF Includes(seq, x)
  THEN CHOOSE i \in 1..Len(seq) : seq[i] = x /\ \A j \in 1..(i - 1) : seq[j] # x
  ELSE 0

\* splice(idx, 1)
Splice1(seq, idx) ==
  [j \in 1..(Len(seq) - 1) |-> IF j < idx THEN seq[j] ELSE seq[j + 1]]

\* mutant of toggleReaction: splice(idx), which drops idx and all that follow
toggleReactionSpliceToEnd(reactions, reaction, username) ==
  LET cur == IF reaction \in DOMAIN reactions THEN reactions[reaction] ELSE <<>>
      idx == IndexOf(cur, username)
  IN Put(reactions, reaction,
         IF idx = 0 THEN Append(cur, username) ELSE SubSeq(cur, 1, idx - 1))

\* m.reactions[reaction] = m.reactions[reaction] || [];
\* idx === -1 ? push(username) : splice(idx, 1)
toggleReaction(reactions, reaction, username) ==
  LET cur == IF reaction \in DOMAIN reactions THEN reactions[reaction] ELSE <<>>
      idx == IndexOf(cur, username)
  IN Put(reactions, reaction,
         IF idx = 0 THEN Append(cur, username) ELSE Splice1(cur, idx))

\* socket.on('message_reaction', ({ messageId, reaction, username }) => ...)
MessageReaction(c, messageId, reaction, username) ==
  /\ conn[c] = "live"
  /\ last' = [op |-> "message_reaction", sid |-> c, messageId |-> messageId,
              reaction |-> reaction, username |-> username]
  /\ acks' = <<>>
  /\ LET i == FindMessage(messages, messageId)
     IN IF i = 0
        THEN /\ out' = NoOut
             /\ UNCHANGED messages
        ELSE LET m == messages[i]
                 e == [ev |-> "message_reaction", messageId |-> messageId,
                       reaction |-> reaction, username |-> username]
             IN /\ messages' = [messages EXCEPT
                                  ![i].reactions = toggleReaction(@, reaction, username)]
                /\ out' = IF m.isPrivate
                          THEN EmitEach(
                                 EmitEach(NoOut, sioRooms,
                                          SocketsOf(socketsByUser, m.toUser), e),
                                 sioRooms, SocketsOf(socketsByUser, m.sender), e)
                          ELSE Emit(NoOut, InRoom(sioRooms, m.roomId), e)
  /\ UNCHANGED <<conn, sioRooms, users, socketsByUser, typingUsers, typingIn, rooms, now, nextId>>
  /\ UNCHANGED <<pvars, svars>>

Min(a, b) == IF a < b THEN a ELSE b
Max(a, b) == IF a > b THEN a ELSE b

\* Array.prototype.slice(start, end) on a list of length len: a negative index
\* counts from the end, and both are clamped to 0..len
JsSlice(list, start, end) ==
  LET len == Len(list)
      from == IF start < 0 THEN Max(len + start, 0) ELSE Min(start, len)
      to == IF end < 0 THEN Max(len + end, 0) ELSE Min(end, len)
  IN SubSeq(list, from + 1, to)

\* list.findIndex(m => m.id === beforeId): 0-based, -1 when there is none
FindIndex(list, id) == FindMessage(list, id) - 1

\* mutant of loadOlder: slice(idx - limit, idx - 1), which leaves out the
\* message just before the cursor
loadOlderSkipsOne(ms, roomId, beforeId, limit) ==
  LET list == SelectSeq(ms, LAMBDA m : m.roomId = roomId /\ ~m.isPrivate)
      idx == FindIndex(list, beforeId)
  IN IF beforeId # NoId
     THEN IF idx = -1
          THEN JsSlice(list, -limit, Len(list))
          ELSE JsSlice(list, Max(0, idx - limit), Max(0, idx - 1))
     ELSE JsSlice(list, -limit, Len(list))

\* the list load_older passes to its callback
loadOlder(ms, roomId, beforeId, limit) ==
  LET list == SelectSeq(ms, LAMBDA m : m.roomId = roomId /\ ~m.isPrivate)
      idx == FindIndex(list, beforeId)
  IN IF beforeId # NoId
     THEN IF idx = -1
          THEN JsSlice(list, -limit, Len(list))
          ELSE JsSlice(list, Max(0, idx - limit), idx)
     ELSE JsSlice(list, -limit, Len(list))

\* socket.on('load_older', ({ roomId = 'global', beforeId, limit = 20 }, ack) => ...)
LoadOlder(c, roomId, beforeId, limit, hasAck) ==
  /\ conn[c] = "live"
  /\ last' = [op |-> "load_older", sid |-> c, roomId |-> roomId,
              beforeId |-> beforeId, limit |-> limit, hasAck |-> hasAck]
  /\ out' = NoOut
  /\ acks' = IF hasAck
             THEN <<[status |-> "ok",
                     messages |-> loadOlder(messages,
                                            IF roomId = "" THEN "global" ELSE roomId,
                                            beforeId, limit)]>>
             ELSE <<>>
  /\ UNCHANGED <<conn, sioRooms, users, socketsByUser, messages, typingUsers, typingIn, rooms,
                 now, nextId>>

\* ------------------------------------------------------- the history pager
\* what the client keeps of the page its load_older call was answered with
PagerTakes(page, older) ==
  /\ pgHistory' = page \o older
  /\ IF page = <<>>
     THEN pgState' = "done" /\ pgCursor' = pgCursor
     ELSE pgState' = "paging" /\ pgCursor' = page[1].id

\* first call: no cursor
PageFirst(c, roomId, limit) ==
  /\ pgState = "idle"
  /\ LoadOlder(c, roomId, NoId, limit, TRUE)
  /\ pgSocket' = c
  /\ pgRoom' = roomId
  /\ pgLimit' = limit
  /\ PagerTakes(acks'[1].messages, <<>>)
  /\ UNCHANGED svars

\* next call: the cursor is the oldest message of the page before
PageMore ==
  /\ pgState = "paging"
  /\ LoadOlder(pgSocket, pgRoom, pgCursor, pgLimit, TRUE)
  /\ UNCHANGED <<pgSocket, pgRoom, pgLimit>>
  /\ PagerTakes(acks'[1].messages, pgHistory)
  /\ UNCHANGED svars

\* a log of n messages as send_message and private_message leave it: ids and
\* timestamps in order of creation, a private message filed under 'global'
HistoryShapes == [isPrivate : {FALSE}, roomId : {"global", "general"}]
                   \cup [isPrivate : {TRUE}, roomId : {"global"}]

LogOf(shapes) ==
  [i \in 1..Len(shapes) |->
     createMessage(i, i, "hi", "alice", "s1", shapes[i].roomId,
                   shapes[i].isPrivate,
                   IF shapes[i].isPrivate THEN "bob" ELSE Null)]

Histories ==
  UNION {{LogOf(sh) : sh \in [1..n -> HistoryShapes]} : n \in 0..MaxHistory}

\* alice is connected on s1 and the log holds some history
PageInit ==
  /\ conn = [c \in SocketIds |-> IF c = "s1" THEN "live" ELSE "new"]
  /\ sioRooms = [r \in RoomIds \cup SocketIds |->
                   IF r \in {"s1", "global"} THEN {"s1"} ELSE {}]
  /\ users = [c \in {"s1"} |-> "alice"]
  /\ socketsByUser = [u \in {"alice"} |-> {"s1"}]
  /\ messages \in Histories
  /\ typingUsers = <<>>
  /\ typingIn = {}
  /\ rooms = [r \in {"global"} |-> {"s1"}]
  /\ now = Len(messages)
  /\ nextId = Len(messages) + 1
  /\ out = NoOut
  /\ acks = <<>>
  /\ last = [op |-> "init"]
  /\ PagerInit
  /\ ServerInit

\* the pager alone: nothing writes to the log while it scrolls
NextPage ==
  \/ \E c \in SocketIds, roomId \in {"", "global", "general"}, limit \in 1..MaxLimit :
       PageFirst(c, roomId, limit)
  \/ PageMore

SpecPage == PageInit /\ [][NextPage]_vars

\* single load_older calls over every payload
NextLoad ==
  /\ \E c \in SocketIds, roomId \in {"", "global", "general"},
        beforeId \in 0..(MaxHistory + 1),
        limit \in 0..MaxLimit \cup {DefaultLimit}, hasAck \in BOOLEAN :
       LoadOlder(c, roomId, beforeId, limit, hasAck)
  /\ UNCHANGED <<pvars, svars>>

SpecLoad == PageInit /\ [][NextLoad]_vars

\* ============================================================ server.js
SrvLive == {c \in SocketIds : srvConn[c] = "live"}

\* clerk.sessions.verifyToken(token) and clerk.users.getUser(userId): the
\* verified user, or NoUser when verification throws
clerkUser(token) ==
  IF token = "clerk-u1" THEN [clerkId |-> "u1", username |-> "alice"] ELSE NoUser

\* User.find({ online: true })
OnlineUsers(docs) == {docs[k].username : k \in {d \in DOMAIN docs : docs[d].online}}

\* io.use(...) then io.on('connection', async socket => ...) up to its first
\* await; a socket without socket.user has its listeners attached at once
SrvConnect(c, token) ==
  /\ srvConn[c] = "new"
  /\ IF token # "" /\ clerkUser(token) = NoUser
     THEN \* next(new Error('Unauthorized'))
          /\ srvConn' = [srvConn EXCEPT ![c] = "dead"]
          /\ UNCHANGED <<srvSocket, srvRooms, srvUsers, srvPending, srvNextReq>>
     ELSE /\ srvConn' = [srvConn EXCEPT ![c] = "live"]
          /\ srvRooms' = SioJoin(srvRooms, c, c)
          /\ IF token # ""
             THEN LET u == clerkUser(token)
                  IN /\ srvNextReq <= MaxReqs
                     /\ srvSocket' = [srvSocket EXCEPT ![c].user = u]
                     /\ srvUsers' = Put(srvUsers, c,
                                        [clerkId |-> u.clerkId, username |-> u.username,
                                         room |-> "global"])
                     /\ srvPending' = srvPending \cup
                                        {[req |-> srvNextReq, kind |-> "register",
                                          sid |-> c, key |-> u.clerkId,
                                          username |-> u.username]}
                     /\ srvNextReq' = srvNextReq + 1
             ELSE /\ srvSocket' = [srvSocket EXCEPT ![c].listening = TRUE]
                  /\ UNCHANGED <<srvUsers, srvPending, srvNextReq>>
  /\ srvOut' = NoOut
  /\ UNCHANGED <<userDocs, messageDocs, srvErrors, srvInbox>>
  /\ UNCHANGED <<hvars, pvars>>

\* socket.on('user_join', async username => ...) up to its await
SrvUserJoin(c, username) ==
  /\ srvConn[c] = "live" /\ srvSocket[c].listening
  /\ srvNextReq <= MaxReqs
  /\ LET name == IF username = "" THEN "Anon-" \o c ELSE username
     IN /\ srvUsers' = Put(srvUsers, c,
                           [clerkId |-> Null, username |-> name, room |-> "global"])
        /\ srvPending' = srvPending \cup
                           {[req |-> srvNextReq, kind |-> "user_join", sid |-> c,
                             key |-> "guest:" \o c, username |-> name]}
  /\ srvNextReq' = srvNextReq + 1
  /\ srvOut' = NoOut
  /\ UNCHANGED <<srvConn, srvSocket, srvRooms, userDocs, messageDocs, srvErrors,
                 srvInbox>>
  /\ UNCHANGED <<hvars, pvars>>

\* the rest of a registration: User.findOneAndUpdate(..., { upsert: true }),
\* User.find({ online: true }), the two io.emit; outcome names the await that
\* threw, if any.  The connection handler attaches its listeners afterwards.
SrvRegistered(p, outcome) ==
  /\ p \in srvPending /\ p.kind \in {"register", "user_join"}
  /\ srvPending' = srvPending \ {p}
  /\ LET docs == Put(userDocs, p.key,
                     [username |-> p.username, socketId |-> p.sid, online |-> TRUE])
         o1 == Emit(NoOut, SrvLive, [ev |-> "user_list", list |-> OnlineUsers(docs)])
         o2 == Emit(o1, SrvLive,
                    [ev |-> "user_joined", username |-> p.username, id |-> p.sid])
     IN /\ userDocs' = IF outcome = "upsert_failed" THEN userDocs ELSE docs
        /\ srvOut' = IF outcome = "ok" THEN o2 ELSE NoOut
        /\ srvErrors' = IF outcome = "ok" THEN srvErrors
                        ELSE srvErrors \cup {[req |-> p.req, at |-> p.kind]}
  /\ srvSocket' = IF p.kind = "register"
                  THEN [srvSocket EXCEPT ![p.sid].listening = TRUE]
                  ELSE srvSocket
  /\ UNCHANGED <<srvConn, srvRooms, srvUsers, messageDocs, srvNextReq, srvInbox>>
  /\ UNCHANGED <<hvars, pvars>>

\* socket.on('join_room', roomName => ...)
SrvJoinRoom(c, roomName) ==
  /\ srvConn[c] = "live" /\ srvSocket[c].listening
  /\ LET room == IF roomName = "" THEN "global" ELSE roomName
         sio == SioJoin(srvRooms, c, room)
         us == IF c \in DOMAIN srvUsers
               THEN [srvUsers EXCEPT ![c].room = room] ELSE srvUsers
         roomUsers == {us[k].username : k \in {d \in DOMAIN us : us[d].room = room}}
     IN /\ srvRooms' = sio
        /\ srvSocket' = [srvSocket EXCEPT ![c].currentRoom = room]
        /\ srvUsers' = us
        /\ srvOut' = Emit(NoOut, InRoom(sio, room),
                          [ev |-> "user_list", list |-> roomUsers])
  /\ UNCHANGED <<srvConn, userDocs, messageDocs, srvPending, srvNextReq, srvErrors,
                 srvInbox>>
  /\ UNCHANGED <<hvars, pvars>>

\* users[socket.id]?.username || socket.user?.username || 'Anonymous'
SenderName(c) ==
  IF c \in DOMAIN srvUsers THEN srvUsers[c].username
  ELSE IF srvSocket[c].user # NoUser THEN srvSocket[c].user.username
  ELSE "Anonymous"

\* socket.user?.clerkId || socket.id
SenderId(c) == IF srvSocket[c].user # NoUser THEN srvSocket[c].user.clerkId ELSE c

\* socket.on('send_message', async (msgData = {}) => ...) up to
\* await Message.create(messageObj)
SrvSendMessage(c, msgRoom, message) ==
  /\ srvConn[c] = "live" /\ srvSocket[c].listening
  /\ srvNextReq <= MaxReqs
  /\ LET room == IF srvSocket[c].currentRoom # "" THEN srvSocket[c].currentRoom
                 ELSE IF msgRoom # "" THEN msgRoom ELSE "global"
         messageObj == [id |-> srvNextReq, message |-> message,
                        sender |-> SenderName(c), senderId |-> SenderId(c),
                        room |-> room, isPrivate |-> FALSE, to |-> Null,
                        timestamp |-> srvNextReq, readBy |-> <<>>]
     IN srvPending' = srvPending \cup
                        {[req |-> srvNextReq, kind |-> "send_message", sid |-> c,
                          doc |-> messageObj]}
  /\ srvNextReq' = srvNextReq + 1
  /\ srvOut' = NoOut
  /\ UNCHANGED <<srvConn, srvSocket, srvRooms, srvUsers, userDocs, messageDocs,
                 srvErrors, srvInbox>>
  /\ UNCHANGED <<hvars, pvars>>

\* socket.on('private_message', async ({ to, message }) => ...) up to
\* await Message.create(msg)
SrvPrivateMessage(c, to, message) ==
  /\ srvConn[c] = "live" /\ srvSocket[c].listening
  /\ IF to = "" \/ message = ""
     THEN UNCHANGED <<srvPending, srvNextReq>>
     ELSE /\ srvNextReq <= MaxReqs
          /\ LET msg == [id |-> srvNextReq, message |-> message,
                         sender |-> SenderName(c), senderId |-> SenderId(c),
                         room |-> "pm:" \o c \o ":" \o to, isPrivate |-> TRUE,
                         to |-> to, timestamp |-> srvNextReq, readBy |-> <<>>]
             IN srvPending' = srvPending \cup
                                {[req |-> srvNextReq, kind |-> "private_message",
                                  sid |-> c, doc |-> msg]}
          /\ srvNextReq' = srvNextReq + 1
  /\ srvOut' = NoOut
  /\ UNCHANGED <<srvConn, srvSocket, srvRooms, srvUsers, userDocs, messageDocs,
                 srvErrors, srvInbox>>
  /\ UNCHANGED <<hvars, pvars>>

\* mutant of CatchCreate: the catch block emits the unsaved message
CatchCreateEmits(p, inbox) ==
  Emit(inbox, InRoom(srvRooms, p.doc.room) \cup (SrvLive \cap {p.sid}),
       [ev |-> IF p.kind = "send_message" THEN "receive_message" ELSE "private_message",
        msg |-> p.doc])

\* catch (err) { console.error(...) }: what the sockets have received after it
CatchCreate(p, inbox) == inbox

\* mutant of AfterCreate: a socket is handed the new event before the events
\* it was sent earlier
AfterCreatePrepends(p, saved, inbox) ==
  LET e == [ev |-> IF p.kind = "send_message" THEN "receive_message"
                   ELSE "private_message",
            msg |-> saved]
      S == IF p.kind = "send_message" THEN InRoom(srvRooms, saved.room)
           ELSE (SrvLive \cap {p.sid}) \cup InRoom(srvRooms, saved.to)
  IN [c \in SocketIds |-> IF c \in S THEN <<e>> \o inbox[c] ELSE inbox[c]]

\* the lines after await Message.create(...) resolved with saved
AfterCreate(p, saved, inbox) ==
  IF p.kind = "send_message"
  THEN Emit(inbox, InRoom(srvRooms, saved.room),
            [ev |-> "receive_message", msg |-> saved])
  ELSE Emit(Emit(inbox, SrvLive \cap {p.sid}, [ev |-> "private_message", msg |-> saved]),
            InRoom(srvRooms, saved.to), [ev |-> "private_message", msg |-> saved])

\* Message.create settles: it rejects a document whose required message is
\* empty, and may reject any document when the database fails
SrvCreateSettled(p, ok) ==
  /\ p \in srvPending /\ p.kind \in {"send_message", "private_message"}
  /\ ok => p.doc.message # ""
  /\ srvPending' = srvPending \ {p}
  /\ IF ok
     THEN /\ messageDocs' = Append(messageDocs, p.doc)
          /\ srvInbox' = AfterCreate(p, p.doc, srvInbox)
          /\ UNCHANGED srvErrors
     ELSE /\ srvErrors' = srvErrors \cup {[req |-> p.req, at |-> p.kind]}
          /\ srvInbox' = CatchCreate(p, srvInbox)
          /\ UNCHANGED messageDocs
  /\ srvOut' = NoOut
  /\ UNCHANGED <<srvConn, srvSocket, srvRooms, srvUsers, userDocs, srvNextReq>>
  /\ UNCHANGED <<hvars, pvars>>

\* the transport of a socket closes: the socket leaves its rooms and
\* 'disconnect' is emitted to the listeners attached so far.  The listener
\* of lines 266-283 runs up to await User.findOneAndUpdate(...); a socket
\* whose connection handler is still awaiting has no listener yet.
SrvDisconnect(c) ==
  /\ srvConn[c] = "live"
  /\ srvConn' = [srvConn EXCEPT ![c] = "dead"]
  /\ srvRooms' = SioLeaveAll(srvRooms, c)
  /\ srvPending' = IF srvSocket[c].listening /\ c \in DOMAIN srvUsers
                    THEN srvPending \cup
                           {[req |-> 0, kind |-> "disconnect", sid |-> c,
                             user |-> srvUsers[c]]}
                    ELSE srvPending
  /\ srvOut' = NoOut
  /\ UNCHANGED <<srvSocket, srvUsers, userDocs, messageDocs, srvNextReq, srvErrors,
                 srvInbox>>
  /\ UNCHANGED <<hvars, pvars>>

\* delete users[socket.id]
DeleteSession(us, sid) == Del(us, sid)

\* the disconnect listener after its first await: io.to(room).emit('user_left')
\* or the catch block, then delete users[socket.id], up to await User.find(...)
SrvDisconnected(p, ok) ==
  /\ p \in srvPending /\ p.kind = "disconnect"
  /\ LET key == IF p.user.clerkId # Null THEN p.user.clerkId ELSE "guest:" \o p.sid
     IN /\ userDocs' = IF ok /\ key \in DOMAIN userDocs
                        THEN [userDocs EXCEPT ![key].online = FALSE,
                                              ![key].socketId = Null]
                        ELSE userDocs
        /\ srvOut' = IF ok
                      THEN Emit(NoOut, InRoom(srvRooms, p.user.room),
                                [ev |-> "user_left", username |-> p.user.username,
                                 id |-> p.sid])
                      ELSE NoOut
        /\ srvErrors' = IF ok THEN srvErrors
                         ELSE srvErrors \cup {[req |-> p.req, at |-> p.kind]}
  /\ srvUsers' = DeleteSession(srvUsers, p.sid)
  /\ srvPending' = (srvPending \ {p}) \cup
                      {[req |-> 0, kind |-> "disconnect_list", sid |-> p.sid]}
  /\ UNCHANGED <<srvConn, srvSocket, srvRooms, messageDocs, srvNextReq, srvInbox>>
  /\ UNCHANGED <<hvars, pvars>>

\* io.emit('user_list', await User.find({ online: true }).lean()); a rejection
\* of User.find is caught by nobody and nothing is emitted
SrvUserListed(p, ok) ==
  /\ p \in srvPending /\ p.kind = "disconnect_list"
  /\ srvPending' = srvPending \ {p}
  /\ srvOut' = IF ok
                THEN Emit(NoOut, SrvLive,
                          [ev |-> "user_list", list |-> OnlineUsers(userDocs)])
                ELSE NoOut
  /\ UNCHANGED <<srvConn, srvSocket, srvRooms, srvUsers, userDocs, messageDocs,
                 srvNextReq, srvErrors, srvInbox>>
  /\ UNCHANGED <<hvars, pvars>>

\* Message.findById(messageId): the index of the stored document, 0 for none
FindById(docs, messageId) ==
  IF \E i \in 1..Len(docs) : docs[i].id = messageId
  THEN CHOOSE i \in 1..Len(docs) : docs[i].id = messageId
  ELSE 0

\* socket.on('message_read', async messageId => ...) up to
\* await Message.findById(messageId); at most MaxReads handlers of one socket
\* are in flight, told apart by slot
SrvMessageRead(c, messageId) ==
  /\ srvConn[c] = "live" /\ srvSocket[c].listening
  /\ LET busy == {q.slot : q \in {r \in srvPending :
                                     /\ r.kind \in {"message_read", "message_save"}
                                     /\ r.sid = c}}
     IN /\ busy # 1..MaxReads
        /\ srvPending' = srvPending \cup
                           {[req |-> 0, kind |-> "message_read", sid |-> c,
                             slot |-> CHOOSE k \in 1..MaxReads \ busy :
                                        \A j \in 1..MaxReads \ busy : k <= j,
                             messageId |-> messageId, userId |-> SenderId(c)]}
  /\ srvOut' = NoOut
  /\ UNCHANGED <<srvConn, srvSocket, srvRooms, srvUsers, userDocs, messageDocs,
                 srvNextReq, srvErrors, srvInbox>>
  /\ UNCHANGED <<hvars, pvars>>

\* findById settles: if (!msg) return; if (!msg.readBy.includes(userId))
\* { msg.readBy.push(userId); await msg.save(); ... }.  The handler works on
\* the copy of the document that findById returned.
SrvFound(p, ok) ==
  /\ p \in srvPending /\ p.kind = "message_read"
  /\ LET i == FindById(messageDocs, p.messageId)
     IN IF ~ok
        THEN /\ srvPending' = srvPending \ {p}
             /\ srvErrors' = srvErrors \cup {[req |-> p.req, at |-> p.kind]}
        ELSE /\ srvPending' =
                  IF i = 0 \/ Includes(messageDocs[i].readBy, p.userId)
                  THEN srvPending \ {p}
                  ELSE (srvPending \ {p}) \cup {[p EXCEPT !.kind = "message_save"]}
             /\ UNCHANGED srvErrors
  /\ srvOut' = NoOut
  /\ UNCHANGED <<srvConn, srvSocket, srvRooms, srvUsers, userDocs, messageDocs,
                 srvNextReq, srvInbox>>
  /\ UNCHANGED <<hvars, pvars>>

\* msg.save() settles: the pushed element is written with $push, so it is
\* appended to the array the database holds; then
\* io.emit('message_read', { messageId, userId })
SrvSaved(p, ok) ==
  /\ p \in srvPending /\ p.kind = "message_save"
  /\ srvPending' = srvPending \ {p}
  /\ LET i == FindById(messageDocs, p.messageId)
     IN IF ok
        THEN /\ messageDocs' = [messageDocs EXCEPT ![i].readBy = Append(@, p.userId)]
             /\ srvOut' = Emit(NoOut, SrvLive,
                               [ev |-> "message_read", messageId |-> p.messageId,
                                userId |-> p.userId])
             /\ UNCHANGED srvErrors
        ELSE /\ srvErrors' = srvErrors \cup {[req |-> p.req, at |-> p.kind]}
             /\ srvOut' = NoOut
             /\ UNCHANGED messageDocs
  /\ UNCHANGED <<srvConn, srvSocket, srvRooms, srvUsers, userDocs, srvNextReq,
                 srvInbox>>
  /\ UNCHANGED <<hvars, pvars>>

NextServer ==
  \/ \E c \in SocketIds, token \in {"", "bad", "clerk-u1"} : SrvConnect(c, token)
  \/ \E c \in SocketIds, username \in {"bob"} : SrvUserJoin(c, username)
  \/ \E p \in srvPending, outcome \in {"ok", "upsert_failed", "find_failed"} :
       SrvRegistered(p, outcome)
  \/ \E c \in SocketIds, roomName \in {"general"} : SrvJoinRoom(c, roomName)
  \/ \E c \in SocketIds, msgRoom \in {"", "general"}, message \in {"", "hi"} :
       SrvSendMessage(c, msgRoom, message)
  \/ \E c \in SocketIds, to \in SocketIds \cup {""}, message \in {"", "hi"} :
       SrvPrivateMessage(c, to, message)
  \/ \E p \in srvPending, ok \in BOOLEAN : SrvCreateSettled(p, ok)

SpecServer == Init /\ [][NextServer]_vars

\* read receipts of server.js: guests send messages and mark the first
\* message read
NextReceipts ==
  \/ \E c \in SocketIds : SrvConnect(c, "")
  \/ \E c \in SocketIds : SrvSendMessage(c, "", "hi")
  \/ \E p \in srvPending, ok \in BOOLEAN : SrvCreateSettled(p, ok)
  \/ \E c \in SocketIds : SrvMessageRead(c, 1)
  \/ \E p \in srvPending, ok \in BOOLEAN : SrvFound(p, ok)
  \/ \E p \in srvPending, ok \in BOOLEAN : SrvSaved(p, ok)

SpecReceipts == Init /\ [][NextReceipts]_vars

\* the database calls of the session handlers settle
SettleSession ==
  \/ \E p \in srvPending, outcome \in {"ok", "upsert_failed", "find_failed"} :
       SrvRegistered(p, outcome)
  \/ \E p \in srvPending, ok \in BOOLEAN : SrvDisconnected(p, ok)
  \/ \E p \in srvPending, ok \in BOOLEAN : SrvUserListed(p, ok)

\* sessions of server.js: registration, rooms and disconnection
NextSession ==
  \/ \E c \in SocketIds, token \in {"", "clerk-u1"} : SrvConnect(c, token)
  \/ \E c \in SocketIds, username \in {"bob"} : SrvUserJoin(c, username)
  \/ \E c \in SocketIds, roomName \in {"general"} : SrvJoinRoom(c, roomName)
  \/ \E c \in SocketIds : SrvDisconnect(c)
  \/ SettleSession

SpecSession == Init /\ [][NextSession]_vars

\* every awaited database call settles, with a result or with an error
SpecSessionFair == SpecSession /\ WF_vars(SettleSession)

\* ------------------------------------------------- rooms and room messages
Next ==
  \/ \E c \in SocketIds, token \in {"", "jwt-alice"} : Connect(c, token)
  \/ \E c \in SocketIds, username \in {"alice"} : UserJoin(c, username)
  \/ \E c \in SocketIds, roomId \in {"", "global", "general"} : JoinRoom(c, roomId)
  \/ \E c \in SocketIds, roomId \in {"", "global", "general"} : LeaveRoom(c, roomId)
  \/ \E c \in SocketIds, roomId \in RoomInputs, text \in Texts, hasAck \in BOOLEAN :
       SendMessage(c, roomId, text, hasAck)
  \/ \E c \in SocketIds : Disconnect(c)

Spec == Init /\ [][Next]_vars

\* ------------------------------------------------------- private messages
NextPrivate ==
  \/ \E c \in SocketIds, token \in Tokens : Connect(c, token)
  \/ \E c \in SocketIds, username \in NameInputs : UserJoin(c, username)
  \/ \E c \in SocketIds, to \in NameInputs, text \in Texts, hasAck \in BOOLEAN :
       PrivateMessage(c, to, text, hasAck)
  \/ \E c \in SocketIds : Disconnect(c)

SpecPrivate == Init /\ [][NextPrivate]_vars

\* ------------------------------------------------------------ read receipts
NextRead ==
  \/ \E c \in SocketIds, token \in {"jwt-alice", "jwt-bob"} : Connect(c, token)
  \/ \E c \in SocketIds, roomId \in {"", "general"}, text \in Texts :
       SendMessage(c, roomId, text, FALSE)
  \/ \E c \in SocketIds, to \in Usernames, text \in Texts :
       PrivateMessage(c, to, text, FALSE)
  \/ \E c \in SocketIds, messageId \in IdInputs, username \in Usernames :
       MessageRead(c, messageId, username)

SpecRead == Init /\ [][NextRead]_vars

\* --------------------------------------------------------------- reactions
NextReact ==
  \/ \E c \in SocketIds, token \in {"jwt-alice", "jwt-bob"} : Connect(c, token)
  \/ \E c \in SocketIds, roomId \in {"", "general"}, text \in Texts :
       SendMessage(c, roomId, text, FALSE)
  \/ \E c \in SocketIds, to \in Usernames, text \in Texts :
       PrivateMessage(c, to, text, FALSE)
  \/ \E c \in SocketIds, messageId \in IdInputs, reaction \in Kinds,
        username \in Usernames :
       MessageReaction(c, messageId, reaction, username)

SpecReact == Init /\ [][NextReact]_vars

\* ------------------------- read receipts and reactions, and their parties
NextParties ==
  \/ \E c \in SocketIds, token \in {"jwt-alice", "jwt-bob"} : Connect(c, token)
  \/ \E c \in SocketIds, username \in Usernames : UserJoin(c, username)
  \/ \E c \in SocketIds, roomId \in {""}, text \in Texts :
       SendMessage(c, roomId, text, FALSE)
  \/ \E c \in SocketIds, to \in Usernames, text \in Texts :
       PrivateMessage(c, to, text, FALSE)
  \/ \E c \in SocketIds, messageId \in IdInputs, username \in Usernames :
       MessageRead(c, messageId, username)
  \/ \E c \in SocketIds, messageId \in IdInputs, reaction \in Kinds,
        username \in Usernames :
       MessageReaction(c, messageId, reaction, username)

SpecParties == Init /\ [][NextParties]_vars

\* ------------------------------------- sends by unregistered connections
NextGuest ==
  \/ \E c \in SocketIds, token \in {"", "jwt-alice"} : Connect(c, token)
  \/ \E c \in SocketIds, username \in {"", "alice"} : UserJoin(c, username)
  \/ \E c \in SocketIds, roomId \in {"", "general"}, text \in Texts, hasAck \in BOOLEAN :
       SendMessage(c, roomId, text, hasAck)
  \/ \E c \in SocketIds, to \in {"alice"}, text \in Texts, hasAck \in BOOLEAN :
       PrivateMessage(c, to, text, hasAck)
  \/ \E c \in SocketIds : Disconnect(c)

SpecGuest == Init /\ [][NextGuest]_vars

\* ------------------------------------------------------- typing indicator
NextTyping ==
  \/ \E c \in SocketIds, token \in {"", "jwt-alice", "jwt-bob"} : Connect(c, token)
  \/ \E c \in SocketIds, roomId \in {"general"} : JoinRoom(c, roomId)
  \/ \E c \in SocketIds, roomId \in {"", "general"}, isTyping \in BOOLEAN :
       Typing(c, roomId, isTyping)
  \/ \E c \in SocketIds : Disconnect(c)

SpecTyping == Init /\ [][NextTyping]_vars

\* the server handles the events that arrive for as long as any can arrive;
\* socketHandlers.js sets no timer
SpecTypingFair == SpecTyping /\ WF_vars(NextTyping)

\* =================================================================== claims
\* the message the last send_message / private_message stored
Stored == messages[Len(messages)]

\* the last handler was a send_message by a registered connection
SentRoom == last.op = "send_message" /\ last.sid \in DOMAIN users

\* the last handler was a private_message by a registered connection
SentPrivate == last.op = "private_message" /\ last.sid \in DOMAIN users

\* how many events named ev and carrying msg the last handler delivered to x
Received(x, ev, msg) ==
  Len(SelectSeq(out[x], LAMBDA e : e.ev = ev /\ e.msg = msg))

\* how many events named ev the last handler delivered to x
ReceivedAny(o, x, ev) == Len(SelectSeq(o[x], LAMBDA e : e.ev = ev))

Member(rs, x, r) == r \in DOMAIN rs /\ x \in rs[r]

\* the connected sockets in rooms[r]
LiveMembers(rs, r) == {x \in Live : Member(rs, x, r)}

\* C2: a room message reaches every connected member of rooms[roomId] exactly
\* once and no connection outside rooms[roomId].
C2_RoomDelivery ==
  SentRoom =>
    \A x \in Live :
      Received(x, "receive_message", Stored)
        = IF Member(rooms, x, Stored.roomId) THEN 1 ELSE 0

\* C3: every successful send_message is echoed exactly once to its sender,
\* whatever room it names, and the echo carries the stored message.
C3_SenderAlwaysEchoed ==
  SentRoom =>
    /\ ReceivedAny(out, last.sid, "receive_message") = 1
    /\ Received(last.sid, "receive_message", Stored) = 1

\* C4: a private message reaches every live connection of the target and of
\* the sender's principal exactly once, and no other connection.
C4_PrivateFanout ==
  SentPrivate =>
    \A x \in Live :
      Received(x, "private_message", Stored)
        = IF x \in DOMAIN users /\ users[x] \in {Stored.toUser, Stored.sender}
          THEN 1 ELSE 0

\* C5: a send_message with a callback is acknowledged exactly once, with
\* status ok and the id and timestamp of the message stored and broadcast.
C5_AckMatchesStored ==
  (SentRoom /\ last.hasAck) =>
    /\ acks = <<[status |-> "ok", id |-> Stored.id, timestamp |-> Stored.timestamp]>>
    /\ \A x \in SocketIds : \A i \in 1..Len(out[x]) :
         out[x][i].ev = "receive_message" =>
           /\ out[x][i].msg.id = acks[1].id
           /\ out[x][i].msg.timestamp = acks[1].timestamp

C5_Witness ==
  /\ SentRoom
  /\ last.hasAck
  /\ Len(messages) = MaxMsgs
  /\ \A x \in SocketIds : ReceivedAny(out, x, "receive_message") = 1

\* C8: after join_room the connection is in rooms[roomId], after leave_room it
\* is not; a join of a joined room or a leave of an unjoined or never-created
\* room changes no member set; and no handler run for another connection or
\* another room changes whether the connection is in rooms[roomId].
C8_Step ==
  /\ \A c \in SocketIds, r \in RoomIds :
       (last'.op = "join_room" /\ last'.sid = c /\ last'.roomId = r) =>
         /\ Member(rooms', c, r)
         /\ Member(rooms, c, r) => rooms' = rooms
  /\ \A c \in SocketIds, r \in RoomIds :
       (last'.op = "leave_room" /\ last'.sid = c /\ last'.roomId = r) =>
         /\ ~Member(rooms', c, r)
         /\ ~Member(rooms, c, r) => rooms' = rooms
  /\ \A c \in SocketIds, r \in RoomIds :
       (Member(rooms', c, r) # Member(rooms, c, r)) =>
         /\ last'.sid = c
         /\ \/ last'.op \in {"join_room", "leave_room"} /\ last'.roomId = r
            \/ last'.op \in {"connection", "user_join"} /\ r = "global"
            \/ last'.op = "disconnect"

C8_JoinLeaveNetEffect == [][C8_Step]_vars

C8_Witness ==
  /\ last.op = "leave_room"
  /\ last.roomId \in RoomIds \ DOMAIN rooms
  /\ "global" \in DOMAIN rooms
  /\ rooms["global"] = SocketIds

\* C6: a message_read for a (username, messageId) already in readBy leaves
\* readBy unchanged and emits no message_read event to any connection.
C6_Step ==
  LET i == FindMessage(messages, last'.messageId)
  IN (last'.op = "message_read" /\ i # 0
        /\ Includes(messages[i].readBy, last'.username)) =>
       /\ messages'[i].readBy = messages[i].readBy
       /\ \A x \in SocketIds : ReceivedAny(out', x, "message_read") = 0

C6_SecondReadSilent == [][C6_Step]_vars

\* message_reaction applied twice with the same (username, kind)
ToggleTwice(reactions, reaction, username) ==
  toggleReaction(toggleReaction(reactions, reaction, username), reaction, username)

\* reactions read as a mapping from kind to set of usernames
ReactionSets(reactions) ==
  [k \in Kinds |->
     IF k \in DOMAIN reactions
     THEN {reactions[k][i] : i \in 1..Len(reactions[k])} ELSE {}]

\* C7 as stated: two applications give back exactly the reactions value.
C7_ToggleTwiceExact ==
  \A i \in 1..Len(messages), k \in Kinds, u \in Usernames :
    ToggleTwice(messages[i].reactions, k, u) = messages[i].reactions

\* C7 amended: two applications give back the same set of usernames for
\* every kind (an absent kind counting as the empty set).
C7_ToggleTwiceSameSets ==
  \A i \in 1..Len(messages), k \in Kinds, u \in Usernames :
    ReactionSets(ToggleTwice(messages[i].reactions, k, u))
      = ReactionSets(messages[i].reactions)

C7_Witness ==
  /\ last.op = "message_reaction"
  /\ \E i \in 1..Len(messages) :
       /\ "like" \in DOMAIN messages[i].reactions
       /\ messages[i].reactions["like"] = <<"bob", "alice">>
       /\ ToggleTwice(messages[i].reactions, "like", "bob") # messages[i].reactions

\* the non-private messages of a room, oldest first
RoomHistory(ms, roomId) ==
  SelectSeq(ms, LAMBDA m : m.roomId = roomId /\ ~m.isPrivate)

\* C9: when the pager has received an empty page, the pages it put together
\* are the room's whole history, oldest first, each message once.
C9_PagesCoverHistory ==
  pgState = "done" =>
    pgHistory = RoomHistory(messages, IF pgRoom = "" THEN "global" ELSE pgRoom)

C9_Witness ==
  /\ pgState = "done"
  /\ pgLimit = MaxLimit
  /\ Len(pgHistory) = MaxHistory - 1
  /\ Len(messages) = MaxHistory

\* the last n elements of a sequence
LastN(seq, n) == SubSeq(seq, Len(seq) - Min(n, Len(seq)) + 1, Len(seq))

\* the reference page: at most limit messages, the ones just before the
\* cursor when it is in the room's history, else the most recent ones
RefPage(ms, roomId, beforeId, limit) ==
  LET hist == RoomHistory(ms, roomId)
      at == FindMessage(hist, beforeId)
  IN IF beforeId # NoId /\ at # 0
     THEN LastN(SubSeq(hist, 1, at - 1), limit)
     ELSE LastN(hist, limit)

\* C10: load_older answers with the reference page, for every payload
\* including limit 0.
C10_LoadOlderIsRefPage ==
  (last.op = "load_older" /\ last.hasAck) =>
    acks = <<[status |-> "ok",
              messages |-> RefPage(messages,
                                   IF last.roomId = "" THEN "global" ELSE last.roomId,
                                   last.beforeId, last.limit)]>>

\* the message events a socket has received from server.js
MessageEvents(c) == srvInbox[c]

SavedIds == {messageDocs[i].id : i \in 1..Len(messageDocs)}

\* C1: every receive_message / private_message a connection has received
\* carries a message whose Message.create had already succeeded; a message
\* whose create is still pending or has failed has reached no connection.
C1_PersistBeforeFanout ==
  \A c \in SocketIds : \A i \in 1..Len(MessageEvents(c)) :
    LET m == MessageEvents(c)[i].msg
    IN /\ \E j \in 1..Len(messageDocs) : messageDocs[j] = m
       /\ \A e \in srvErrors : e.req # m.id
       /\ \A p \in srvPending : p.req # m.id

C1_Witness ==
  /\ \E e \in srvErrors : e.at \in {"send_message", "private_message"}
  /\ Len(messageDocs) >= 1
  /\ \A c \in SocketIds : Len(MessageEvents(c)) >= 1

\* the sockets of a typingUsers list, and whether c has an entry in it
HasEntry(tu, c) == \E i \in 1..Len(tu) : tu[i].sid = c

\* the names a typing_users payload lists
NamesOf(names) == {names[i] : i \in 1..Len(names)}

\* the typing_users payloads the handler delivered to x
TypingSnapshots(o, x) ==
  {o[x][i].names : i \in {j \in 1..Len(o[x]) : o[x][j].ev = "typing_users"}}

\* C11 as stated: when a connection that is typing in room r disconnects, its
\* entry leaves typingUsers and every member of r is sent a typing_users
\* snapshot that does not list the connection's display name.
C11_Step ==
  \A c \in SocketIds, r \in RoomIds :
    (last'.op = "disconnect" /\ last'.sid = c /\ <<c, r>> \in typingIn) =>
      /\ ~HasEntry(typingUsers', c)
      /\ \A x \in LiveMembers(rooms, r) \ {c} :
           \E names \in TypingSnapshots(out', x) : users[c] \notin NamesOf(names)

C11_DisconnectClearsName == [][C11_Step]_vars

\* C11 amended: the entry leaves typingUsers and every member of r is sent
\* the snapshot of the entries that remain; the display name is still listed
\* only when another connection typing under the same name remains.
C11_AmendedStep ==
  \A c \in SocketIds, r \in RoomIds :
    (last'.op = "disconnect" /\ last'.sid = c /\ <<c, r>> \in typingIn) =>
      /\ ~HasEntry(typingUsers', c)
      /\ \A x \in LiveMembers(rooms, r) \ {c} :
           /\ TypingSnapshots(out', x) = {TypingNames(typingUsers')}
           /\ users[c] \in NamesOf(TypingNames(typingUsers')) =>
                \E i \in 1..Len(typingUsers) :
                  /\ typingUsers[i].sid # c
                  /\ typingUsers[i].username = users[c]

C11_DisconnectClearsEntry == [][C11_AmendedStep]_vars

C11_Witness ==
  /\ last.op = "disconnect"
  /\ "general" \in last.typingIn
  /\ \E x \in LiveMembers(rooms, "general") :
       TypingSnapshots(out, x) = {<<"bob">>}

\* a typing or disconnect event of connection c is handled
C12_Acts(c) == last'.sid = c /\ last'.op \in {"typing", "disconnect"}

\* C12: typing state expires: for every connection, either it goes on
\* sending typing events (or disconnects) again and again, or from some point
\* on it has no entry in typingUsers; that is, once it stops sending them
\* while it stays connected, its entry is eventually removed.
C12_TypingExpires ==
  \A c \in SocketIds :
    \/ []<><<C12_Acts(c)>>_vars
    \/ <>[]~HasEntry(typingUsers, c)

\* the display names of the connections typing in room r
TypingInRoom(r) == {users[d] : d \in {e \in DOMAIN users : <<e, r>> \in typingIn}}

\* C13: every typing_users payload the typing handler emits to a room lists
\* exactly the display names of the connections typing in that room.
C13_SnapshotIsOfRoom ==
  (last.op = "typing" /\ last.sid \in DOMAIN users) =>
    \A x \in SocketIds : \A names \in TypingSnapshots(out, x) :
      NamesOf(names) = TypingInRoom(IF last.roomId = "" THEN "global" ELSE last.roomId)

\* C14: room membership follows join, leave and disconnect; in particular a
\* connection that has disconnected, registered or not, is in no room's
\* member set.
C14_NoMemberAfterDisconnect ==
  \A c \in SocketIds :
    conn[c] = "dead" => \A r \in DOMAIN rooms : c \notin rooms[r]

\* C15: after the disconnect handler has run for a registered connection, its
\* id is in none of users, socketsByUser, typingUsers and rooms, and what
\* these hold about the other connections is as before.
C15_Step ==
  \A c \in SocketIds :
    (last'.op = "disconnect" /\ last'.sid = c /\ c \in DOMAIN users) =>
      /\ c \notin DOMAIN users'
      /\ \A u \in DOMAIN socketsByUser' : c \notin socketsByUser'[u]
      /\ ~HasEntry(typingUsers', c)
      /\ \A r \in DOMAIN rooms' : c \notin rooms'[r]
      /\ users' = Del(users, c)
      /\ \A u \in Usernames :
           SocketsOf(socketsByUser', u) \ {c} = SocketsOf(socketsByUser, u) \ {c}
      /\ typingUsers' = TypingDelete(typingUsers, c)
      /\ DOMAIN rooms' = DOMAIN rooms
      /\ \A r \in DOMAIN rooms : rooms'[r] \ {c} = rooms[r] \ {c}

C15_DeregistrationComplete == [][C15_Step]_vars

\* C16: a send_message or private_message of a connection with no entry in
\* users is answered, when it has a callback, with status error and reason
\* not_authenticated; the log is unchanged and no other connection is sent
\* any event.
C16_Step ==
  \A c \in SocketIds :
    (last'.op \in {"send_message", "private_message"} /\ last'.sid = c
       /\ c \notin DOMAIN users) =>
      /\ acks' = IF last'.hasAck
                 THEN <<[status |-> "error", reason |-> "not_authenticated"]>>
                 ELSE <<>>
      /\ messages' = messages
      /\ \A x \in SocketIds \ {c} : out'[x] = <<>>

C16_NotAuthenticatedIsLocal == [][C16_Step]_vars

C16_Witness ==
  /\ last.op = "private_message"
  /\ last.sid \notin DOMAIN users
  /\ last.hasAck
  /\ acks = <<[status |-> "error", reason |-> "not_authenticated"]>>
  /\ Len(messages) = MaxMsgs
  /\ \E x \in Live \ {last.sid} : x \in DOMAIN users /\ users[x] = last.to

\* the receive_message events a socket has received from server.js
RoomEvents(c) == SelectSeq(srvInbox[c], LAMBDA e : e.ev = "receive_message")

\* the place of a saved message in the order in which the creates completed
CreateOrder(m) == CHOOSE j \in 1..Len(messageDocs) : messageDocs[j].id = m.id

\* C17: the receive_message events of one room reach every socket in the
\* order in which their Message.create calls completed, so any two sockets
\* that received the same two messages received them in the same order.
C17_RoomOrderIsCreateOrder ==
  /\ \A c \in SocketIds : \A i, j \in 1..Len(RoomEvents(c)) :
       (i < j /\ RoomEvents(c)[i].msg.room = RoomEvents(c)[j].msg.room) =>
         CreateOrder(RoomEvents(c)[i].msg) < CreateOrder(RoomEvents(c)[j].msg)
  /\ \A c, d \in SocketIds :
       \A i, j \in 1..Len(RoomEvents(c)), k, l \in 1..Len(RoomEvents(d)) :
         (i < j /\ RoomEvents(c)[i] = RoomEvents(d)[k]
                /\ RoomEvents(c)[j] = RoomEvents(d)[l]) => k < l

\* both sockets received two messages of one room that were sent by
\* different sockets and whose creates completed in the reverse of the order
\* in which they were submitted
C17_Witness ==
  /\ \A c \in SocketIds : Len(RoomEvents(c)) = 2
  /\ \E c \in SocketIds :
       /\ RoomEvents(c)[1].msg.id > RoomEvents(c)[2].msg.id
       /\ RoomEvents(c)[1].msg.room = RoomEvents(c)[2].msg.room
       /\ RoomEvents(c)[1].msg.senderId # RoomEvents(c)[2].msg.senderId

\* C18: when the Message.create of a send_message or private_message fails,
\* nothing is broadcast, the initiating connection is sent an event that
\* reports the failure, and no other connection is sent anything.
C18_Step ==
  \A p \in srvPending :
    (p.kind \in {"send_message", "private_message"}
       /\ [req |-> p.req, at |-> p.kind] \in srvErrors' \ srvErrors) =>
      /\ srvInbox' = srvInbox
      /\ srvOut'[p.sid] # <<>>
      /\ \A x \in SocketIds \ {p.sid} : srvOut'[x] = <<>>

C18_FailureReportedToInitiator == [][C18_Step]_vars

\* C19: a user_join of a connection that already has an entry in users
\* leaves users, socketsByUser and rooms as they were.
C19_Step ==
  \A c \in SocketIds :
    (last'.op = "user_join" /\ last'.sid = c /\ c \in DOMAIN users) =>
      /\ users' = users
      /\ socketsByUser' = socketsByUser
      /\ rooms' = rooms

C19_NoSecondRegistration == [][C19_Step]_vars

\* C20: a message_read or message_reaction event about a private message is
\* delivered only to connections of the message's sender (read receipts) or
\* of its sender or target (reactions); about a room message it is delivered
\* to the members of the message's room.
C20_EventsStayWithParties ==
  LET i == FindMessage(messages, last.messageId)
      m == messages[i]
      parties == IF last.op = "message_read" THEN {m.sender}
                 ELSE {m.sender, m.toUser}
  IN (last.op \in {"message_read", "message_reaction"} /\ i # 0) =>
       IF m.isPrivate
       THEN \A x \in SocketIds :
              ReceivedAny(out, x, last.op) > 0 =>
                x \in DOMAIN users /\ users[x] \in parties
       ELSE \A x \in Live :
              ReceivedAny(out, x, last.op) > 0 <=> Member(rooms, x, m.roomId)

\* C23: a connection id is in socketsByUser[name] exactly when users holds it
\* under the username name, and socketsByUser holds no empty set.
C23_IndexConsistent ==
  /\ \A c \in SocketIds, name \in Usernames :
       c \in SocketsOf(socketsByUser, name) <=>
         (c \in DOMAIN users /\ users[c] = name)
  /\ \A name \in DOMAIN socketsByUser : socketsByUser[name] # {}

\* C26: a message_read or message_reaction event changes readBy and reactions
\* only under the registered username of the connection that sent it, and
\* when that connection has no entry in users it changes no message and
\* nothing is emitted.
C26_Step ==
  (last'.op \in {"message_read", "message_reaction"}) =>
    /\ last'.sid \in DOMAIN users =>
          \A i \in 1..Len(messages) : \A u \in Usernames \ {users[last'.sid]} :
            /\ Includes(messages'[i].readBy, u) <=> Includes(messages[i].readBy, u)
            /\ \A k \in Kinds :
                 u \in ReactionSets(messages'[i].reactions)[k]
                   <=> u \in ReactionSets(messages[i].reactions)[k]
    /\ last'.sid \notin DOMAIN users =>
          /\ messages' = messages
          /\ out' = NoOut

C26_AttributedToActor == [][C26_Step]_vars

\* C21: the receive_message events a socket is handed for one room from one
\* sending connection come in the order in which that connection emitted its
\* send_message events.  A connection without a Clerk user stamps its own
\* socket id as senderId, and ids are given in order of arrival.
C21_SameSenderInOrder ==
  \A c \in SocketIds : \A i, j \in DOMAIN srvInbox[c] :
    LET a == srvInbox[c][i]
        b == srvInbox[c][j]
    IN (/\ i < j
        /\ a.ev = "receive_message" /\ b.ev = "receive_message"
        /\ a.msg.senderId \in SocketIds /\ a.msg.senderId = b.msg.senderId
        /\ a.msg.room = b.msg.room)
       => a.msg.id < b.msg.id

\* the connections whose registration has completed and which have emitted
\* no join_room
SrvRegisteredFresh ==
  {c \in SrvLive \cap DOMAIN srvUsers :
     /\ srvSocket[c].listening
     /\ srvSocket[c].currentRoom = ""
     /\ \A q \in srvPending : q.kind \in {"register", "user_join"} => q.sid # c}

\* C22: a send_message addressed to 'global' is delivered, when it has been
\* saved, to every registered connection that has emitted no join_room.
C22_Step ==
  \A p \in srvPending :
    (/\ p.kind = "send_message" /\ p.doc.room = "global"
     /\ p \notin srvPending'
     /\ messageDocs' = Append(messageDocs, p.doc))
    => \A c \in SrvRegisteredFresh :
         srvInbox'[c] = Append(srvInbox[c], [ev |-> "receive_message", msg |-> p.doc])

C22_RegisteredIsInGlobal == [][C22_Step]_vars

\* the log after MaxLog send_message events of alice to 'global', the last
\* of them at the present reading of the clock
FullLog ==
  [i \in 1..MaxLog |->
     createMessage(i, i - MaxLog, "hi", "alice", "s1", "global", FALSE, Null)]

\* alice is connected on s1 and the log is at its cap
LogInit ==
  /\ conn = [c \in SocketIds |-> IF c = "s1" THEN "live" ELSE "new"]
  /\ sioRooms = [r \in RoomIds \cup SocketIds |->
                   IF r \in {"s1", "global"} THEN {"s1"} ELSE {}]
  /\ users = [c \in {"s1"} |-> "alice"]
  /\ socketsByUser = [u \in {"alice"} |-> {"s1"}]
  /\ messages = FullLog
  /\ typingUsers = <<>>
  /\ typingIn = {}
  /\ rooms = [r \in {"global"} |-> {"s1"}]
  /\ now = 0
  /\ nextId = MaxLog + 1
  /\ out = NoOut
  /\ acks = <<>>
  /\ last = [op |-> "init"]
  /\ PagerInit
  /\ ServerInit

\* writers of the log, starting from a full log
NextLog ==
  \/ \E c \in SocketIds, token \in {"", "jwt-bob"} : Connect(c, token)
  \/ \E c \in SocketIds, roomId \in {"", "general"}, hasAck \in BOOLEAN :
       SendMessage(c, roomId, "hi", hasAck)
  \/ \E c \in SocketIds, to \in Usernames, hasAck \in BOOLEAN :
       PrivateMessage(c, to, "hi", hasAck)
  \/ \E c \in SocketIds : Disconnect(c)

SpecLog == LogInit /\ [][NextLog]_vars

\* C27: after a send_message or private_message event the log holds at most
\* MaxLog entries, and an event that finds the log full evicts its oldest entry
\* and keeps the others in order.
C27_Step ==
  (last'.op \in {"send_message", "private_message"}) =>
    /\ Len(messages') <= MaxLog
    /\ (Len(messages) = MaxLog /\ messages' # messages) =>
         \A i \in 1..(MaxLog - 1) : messages'[i] = messages[i + 1]

C27_LogBounded == [][C27_Step]_vars

\* C24: when a connection registered by a verified token has disconnected,
\* its entry in users is eventually deleted.
C24_SessionRemoved ==
  \A c \in SocketIds :
    (srvConn[c] = "dead" /\ srvSocket[c].user # NoUser /\ c \in DOMAIN srvUsers)
      ~> (c \notin DOMAIN srvUsers)

\* C25: a message_read event is emitted for a message and a principal only
\* when the stored readBy does not hold that principal yet, and the stored
\* readBy never holds a principal twice.
C25_Step ==
  /\ \A p \in srvPending \ srvPending' :
       (p.kind = "message_save" /\ \E c \in SocketIds : srvOut'[c] # <<>>)
         => ~Includes(messageDocs[FindById(messageDocs, p.messageId)].readBy, p.userId)
  /\ \A i \in 1..Len(messageDocs') :
       \A j, k \in 1..Len(messageDocs'[i].readBy) :
         messageDocs'[i].readBy[j] = messageDocs'[i].readBy[k] => j = k

C25_ReceiptOnce == [][C25_Step]_vars

====
